---------------------------- MODULE Spec2Model ----------------------------
(***************************************************************************)
(* Model of WebScraperService (src/unnamed/part_000): the selector-based   *)
(* extraction functions over a parsed HTML document, and the HTTP client   *)
(* with its default headers, credentials and timeout; and of the three     *)
(* screens that use it: WebScraper, WebScraperWithAuth and WebScraperTest. *)
(*                                                                         *)
(* A JavaScript string is a sequence of tokens (a token is one or more     *)
(* characters that the code never splits): "" is << >>, "/a.png" is        *)
(* <<"/", "a.png">>, " Hi " is <<" ", "Hi", " ">>.  A JavaScript value is  *)
(* a record tagged by its typeof/kind in field t.                          *)
(***************************************************************************)
EXTENDS Naturals, Sequences, FiniteSets, TLC

VARIABLES html, call, outcome, client, history, requests, pending, fetches,
          screen

\* html: the document; call, outcome: the last call that ended and what
\* it gave.  client: this.client.defaults; history: the constructor call
\* and the setter calls made since; requests: the GET requests sent;
\* pending: the requests not yet answered; fetches: the fetchHtml calls.
\* screen: the state of the component that is mounted, [tab |-> "none"] when
\* the service is used on its own.
vars == <<html, call, outcome, client, history, requests, pending, fetches,
          screen>>

clientVars == <<client, history, requests, pending, fetches>>

---------------------------------------------------------------------------
(* Bounds *)

\* Largest number of elements in a document.
MaxElems == 2

\* Largest number of setter calls on one scraper.
MaxSetters == 2

\* Largest number of fetchHtml calls on one scraper.
MaxFetches == 2

---------------------------------------------------------------------------
(* JavaScript values *)

Str(s) == [t |-> "string", v |-> s]

Undefined == [t |-> "undefined"]

Null == [t |-> "null"]

Arr(l) == [t |-> "array", v |-> l]

Obj(f) == [t |-> "object", v |-> f]

\* JavaScript truthiness of the values the service tests with || and if.
Truthy(x) == CASE x.t = "string" -> x.v # << >>
               [] x.t = "undefined" -> FALSE
               [] x.t = "null" -> FALSE
               [] OTHER -> TRUE

\* a || b
OrElse(a, b) == IF Truthy(a) THEN a ELSE b

Whitespace == {" ", "\n"}

RECURSIVE TrimStart(_)
TrimStart(s) == IF s # << >> /\ Head(s) \in Whitespace THEN TrimStart(Tail(s)) ELSE s

RECURSIVE TrimEnd(_)
TrimEnd(s) == IF s # << >> /\ s[Len(s)] \in Whitespace
              THEN TrimEnd(SubSeq(s, 1, Len(s) - 1)) ELSE s

\* String.prototype.trim
Trim(s) == TrimEnd(TrimStart(s))

\* String.prototype.startsWith('/')
StartsWithSlash(s) == s # << >> /\ Head(s) = "/"

RECURSIVE Flatten(_)
Flatten(ss) == IF ss = << >> THEN << >> ELSE Head(ss) \o Flatten(Tail(ss))

---------------------------------------------------------------------------
(* The parsed document: cheerio.load(html).  Elements are listed in        *)
(* document order (pre-order); parent is the index of the parent element,  *)
(* 0 for a top-level element.  An element's content is its text followed   *)
(* by its child elements.                                                  *)

AttrOrder == <<"class", "src", "data-src", "alt", "width", "height", "href">>

VoidTags == {"img"}

Children(doc, i) == {j \in 1..Len(doc) : doc[j].parent = i}

RECURSIVE IsAncestorOrSelf(_, _, _)
IsAncestorOrSelf(doc, a, i) ==
    IF i = 0 THEN FALSE
    ELSE IF a = i THEN TRUE
    ELSE IsAncestorOrSelf(doc, a, doc[i].parent)

\* A sequence of elements is the pre-order listing of a tree.
WellFormed(doc) ==
    \A i \in 1..Len(doc) :
        LET p == doc[i].parent IN
        \/ p = 0
        \/ /\ p \in 1..(i - 1)
           /\ doc[p].tag \notin VoidTags
           /\ IsAncestorOrSelf(doc, p, i - 1)

\* The elements of a set of indices, in document order.
RECURSIVE InOrder(_, _)
InOrder(S, n) == IF n = 0 THEN << >>
                 ELSE InOrder(S, n - 1) \o (IF n \in S THEN <<n>> ELSE << >>)

\* Text content of element i: its own text and that of its descendants.
RECURSIVE TextOf(_, _)
TextOf(doc, i) ==
    LET kids == InOrder(Children(doc, i), Len(doc))
    IN doc[i].text \o Flatten([k \in 1..Len(kids) |-> TextOf(doc, kids[k])])

\* Serialisation of element i and of its content, as $(...).html() gives it.
RECURSIVE OuterHtml(_, _)
RECURSIVE InnerHtml(_, _)
AttrsHtml(e) ==
    Flatten([k \in 1..Len(AttrOrder) |->
        IF AttrOrder[k] \in DOMAIN e.attribs
        THEN <<" ", AttrOrder[k], "=\"">> \o e.attribs[AttrOrder[k]] \o <<"\"">>
        ELSE << >>])

OuterHtml(doc, i) ==
    <<"<", doc[i].tag>> \o AttrsHtml(doc[i]) \o <<">">>
    \o (IF doc[i].tag \in VoidTags THEN << >>
        ELSE InnerHtml(doc, i) \o <<"</", doc[i].tag, ">">>)

InnerHtml(doc, i) ==
    LET kids == InOrder(Children(doc, i), Len(doc))
    IN doc[i].text \o Flatten([k \in 1..Len(kids) |-> OuterHtml(doc, kids[k])])

---------------------------------------------------------------------------
(* CSS selectors, as the query engine reads them: a comma-separated list   *)
(* of simple selectors, each a tag name or a class ('.' name).             *)

SelectorPunct == {".", ",", " ", "[", "]", "\n"}

RECURSIVE SplitOnComma(_, _)
SplitOnComma(s, acc) ==
    IF s = << >> THEN <<acc>>
    ELSE IF Head(s) = "," THEN <<acc>> \o SplitOnComma(Tail(s), << >>)
    ELSE SplitOnComma(Tail(s), Append(acc, Head(s)))

\* One simple selector: [kind, name], kind "invalid" when it does not parse.
ParseSimple(s) ==
    LET c == Trim(s) IN
    IF Len(c) = 1 /\ c[1] \notin SelectorPunct THEN [kind |-> "tag", name |-> c[1]]
    ELSE IF Len(c) = 2 /\ c[1] = "." /\ c[2] \notin SelectorPunct
         THEN [kind |-> "class", name |-> c[2]]
    ELSE [kind |-> "invalid", name |-> ""]

ClassList(e) == IF "class" \in DOMAIN e.attribs
                THEN {e.attribs["class"][k] : k \in 1..Len(e.attribs["class"])} \ Whitespace
                ELSE {}

MatchesSimple(e, p) ==
    CASE p.kind = "tag" -> e.tag = p.name
      [] p.kind = "class" -> p.name \in ClassList(e)
      [] OTHER -> FALSE

\* $(selector): the matched elements in document order; ok is FALSE when
\* the selector does not parse (the query engine throws a SyntaxError).
\* A missing or empty selector gives the empty selection.
Select(doc, selector) ==
    IF ~Truthy(selector) THEN [ok |-> TRUE, nodes |-> << >>]
    ELSE LET parts  == SplitOnComma(selector.v, << >>)
             parsed == [k \in 1..Len(parts) |-> ParseSimple(parts[k])]
         IN IF \E k \in 1..Len(parsed) : parsed[k].kind = "invalid"
            THEN [ok |-> FALSE, nodes |-> << >>]
            ELSE [ok |-> TRUE,
                  nodes |-> InOrder({i \in 1..Len(doc) :
                                       \E k \in 1..Len(parsed) :
                                           MatchesSimple(doc[i], parsed[k])},
                                    Len(doc))]

\* $(...).text(): the text of every matched element, concatenated.
text(doc, nodes) == Flatten([k \in 1..Len(nodes) |-> TextOf(doc, nodes[k])])

\* $(...).html(): the content of the first matched element, null when none.
innerHtml(doc, nodes) == IF nodes = << >> THEN Null ELSE Str(InnerHtml(doc, nodes[1]))

\* $(...).attr(name): read on the first matched element; undefined when no
\* element matched or the attribute is absent; the element's whole
\* attribute map when name is missing or empty.
attr(doc, nodes, name) ==
    IF nodes = << >> THEN Undefined
    ELSE LET attribs == doc[nodes[1]].attribs IN
         IF ~Truthy(name) THEN Obj(attribs)
         ELSE IF Len(name.v) = 1 /\ name.v[1] \in DOMAIN attribs
              THEN Str(attribs[name.v[1]])
         ELSE Undefined

---------------------------------------------------------------------------
(* new URL(ref, base).href, as the URL standard defines it.  An absolute   *)
(* URL is scheme, "/", "/", host and then the path tokens.                 *)

Schemes == {"https:"}

Hosts == {"h.example", "cdn.example"}

IsAbsoluteUrl(u) ==
    /\ Len(u) >= 4
    /\ u[1] \in Schemes /\ u[2] = "/" /\ u[3] = "/" /\ u[4] \in Hosts

\* The base without the last segment of its path: up to its last "/".
RECURSIVE Directory(_)
Directory(base) ==
    IF Len(base) <= 4 THEN base \o <<"/">>
    ELSE IF base[Len(base)] = "/" THEN base
    ELSE Directory(SubSeq(base, 1, Len(base) - 1))

\* ok is FALSE when the constructor throws a TypeError (the base is not an
\* absolute URL, or a '//' reference names no host).
ResolveUrl(ref, base) ==
    IF IsAbsoluteUrl(ref)
    THEN [ok |-> TRUE, href |-> ref \o (IF Len(ref) = 4 THEN <<"/">> ELSE << >>)]
    ELSE IF ~IsAbsoluteUrl(base) THEN [ok |-> FALSE, href |-> << >>]
    ELSE IF Len(ref) >= 2 /\ ref[1] = "/" /\ ref[2] = "/"
         THEN IF Len(ref) >= 3 /\ ref[3] \in Hosts
              THEN [ok |-> TRUE,
                    href |-> <<base[1]>> \o ref \o (IF Len(ref) = 3 THEN <<"/">> ELSE << >>)]
              ELSE [ok |-> FALSE, href |-> << >>]
    ELSE IF StartsWithSlash(ref) THEN [ok |-> TRUE, href |-> SubSeq(base, 1, 4) \o ref]
    ELSE IF ref = << >>
         THEN [ok |-> TRUE, href |-> base \o (IF Len(base) = 4 THEN <<"/">> ELSE << >>)]
    ELSE [ok |-> TRUE, href |-> Directory(base) \o ref]

---------------------------------------------------------------------------
(* WebScraperService: the extraction methods.  Each gives                  *)
(* [kind |-> "return", value |-> v] or [kind |-> "throw", error |-> e].    *)

Return(v) == [kind |-> "return", value |-> v]

Throw(e) == [kind |-> "throw", error |-> e]

\* A parameter with a default value: the default replaces undefined.
DefaultArg(x, d) == IF x.t = "undefined" THEN d ELSE x

\* o[name] of a JavaScript object: undefined when it has no such property.
Get(o, name) == IF name \in DOMAIN o.v THEN o.v[name] ELSE Undefined

\* $(selector).text().trim()
TrimmedText(doc, nodes) == Str(Trim(text(doc, nodes)))

\* Faulty variant: a key whose selector gives no text is left out.
extractText_SkipEmpty(doc, selectors) ==
    CASE selectors.t = "string" ->
            LET m == Select(doc, selectors) IN
            IF m.ok THEN Return(TrimmedText(doc, m.nodes)) ELSE Throw("SyntaxError")
      [] selectors.t = "object" ->
            IF \E key \in DOMAIN selectors.v : ~Select(doc, selectors.v[key]).ok
            THEN Throw("SyntaxError")
            ELSE Return(Obj([key \in {k \in DOMAIN selectors.v :
                                        Truthy(TrimmedText(doc, Select(doc, selectors.v[k]).nodes))}
                                |-> TrimmedText(doc, Select(doc, selectors.v[key]).nodes)]))
      [] OTHER -> Return(Null)

extractText(doc, selectors) ==
    CASE selectors.t = "string" ->
            LET m == Select(doc, selectors) IN
            IF m.ok THEN Return(TrimmedText(doc, m.nodes)) ELSE Throw("SyntaxError")
      [] selectors.t = "object" ->
            IF \E key \in DOMAIN selectors.v : ~Select(doc, selectors.v[key]).ok
            THEN Throw("SyntaxError")
            ELSE Return(Obj([key \in DOMAIN selectors.v |->
                                TrimmedText(doc, Select(doc, selectors.v[key]).nodes)]))
      [] OTHER -> Return(Null)

\* $(element).attr(name) of one element.
ElemAttr(doc, i, name) == attr(doc, <<i>>, Str(<<name>>))

\* Faulty variant: data-src is preferred to src.
ImageSource_DataSrcFirst(doc, element) ==
    OrElse(ElemAttr(doc, element, "data-src"), ElemAttr(doc, element, "src"))

\* let imageUrl = $(element).attr('src') || $(element).attr('data-src')
ImageSource(doc, element) ==
    OrElse(ElemAttr(doc, element, "src"), ElemAttr(doc, element, "data-src"))

\* Faulty variant: every URL is resolved when a base URL is given.
IsRelative_NoSlashTest(url, baseUrl) == Truthy(url) /\ Truthy(baseUrl)

\* The test before new URL(...): url && url.startsWith('/') && baseUrl
IsRelative(url, baseUrl) == Truthy(url) /\ StartsWithSlash(url.v) /\ Truthy(baseUrl)

\* The object pushed for an image element.
ImageRecord(doc, element, url) ==
    [url    |-> url,
     alt    |-> OrElse(ElemAttr(doc, element, "alt"), Str(<< >>)),
     width  |-> OrElse(ElemAttr(doc, element, "width"), Null),
     height |-> OrElse(ElemAttr(doc, element, "height"), Null)]

\* The callback of $(selector).each in extractImages, run on the matched
\* elements from the first on; images is the array built so far.
RECURSIVE EachImage(_, _, _, _)
EachImage(doc, nodes, baseUrl, images) ==
    IF nodes = << >> THEN Return(Arr(images))
    ELSE LET element  == Head(nodes)
             imageUrl == ImageSource(doc, element)
             relative == IsRelative(imageUrl, baseUrl)
             resolved == ResolveUrl(imageUrl.v, baseUrl.v)
             url      == IF relative THEN Str(resolved.href) ELSE imageUrl
         IN IF relative /\ ~resolved.ok THEN Throw("TypeError")
            ELSE EachImage(doc, Tail(nodes), baseUrl,
                           IF Truthy(url)
                           THEN Append(images, ImageRecord(doc, element, url))
                           ELSE images)

extractImages(doc, selectorArg, baseUrlArg) ==
    LET selector == DefaultArg(selectorArg, Str(<<"img">>))
        baseUrl  == DefaultArg(baseUrlArg, Str(<< >>))
        m        == Select(doc, selector)
    IN IF m.ok THEN EachImage(doc, m.nodes, baseUrl, << >>) ELSE Throw("SyntaxError")

\* Faulty variant: the link text is not trimmed.
LinkRecord_Untrimmed(doc, element, url) ==
    [url  |-> url,
     text |-> Str(text(doc, <<element>>))]

\* The object pushed for a link element.
LinkRecord(doc, element, url) ==
    [url  |-> url,
     text |-> TrimmedText(doc, <<element>>)]

\* The callback of $(selector).each in extractLinks.
RECURSIVE EachLink(_, _, _, _)
EachLink(doc, nodes, baseUrl, links) ==
    IF nodes = << >> THEN Return(Arr(links))
    ELSE LET element  == Head(nodes)
             href     == ElemAttr(doc, element, "href")
             relative == IsRelative(href, baseUrl)
             resolved == ResolveUrl(href.v, baseUrl.v)
             url      == IF relative THEN Str(resolved.href) ELSE href
         IN IF relative /\ ~resolved.ok THEN Throw("TypeError")
            ELSE EachLink(doc, Tail(nodes), baseUrl,
                          IF Truthy(url)
                          THEN Append(links, LinkRecord(doc, element, url))
                          ELSE links)

\* Faulty variant: the selector argument is ignored, every link is visited.
extractLinks_AnySelector(doc, selectorArg, baseUrlArg) ==
    EachLink(doc, Select(doc, Str(<<"a">>)).nodes, DefaultArg(baseUrlArg, Str(<< >>)), << >>)

extractLinks(doc, selectorArg, baseUrlArg) ==
    LET selector == DefaultArg(selectorArg, Str(<<"a">>))
        baseUrl  == DefaultArg(baseUrlArg, Str(<< >>))
        m        == Select(doc, selector)
    IN IF m.ok THEN EachLink(doc, m.nodes, baseUrl, << >>) ELSE Throw("SyntaxError")

\* Faulty variant: the text of the whole node-set as a single entry.
ListOf_Joined(doc, nodes) == Arr(<<TrimmedText(doc, nodes)>>)

\* The list case of extractStructuredData: the trimmed text of each
\* matched element.
ListOf(doc, nodes) == Arr([k \in 1..Len(nodes) |-> TrimmedText(doc, <<nodes[k]>>)])

\* Faulty variant: the html case with an empty-string fallback.
FieldHtml_OrEmpty(doc, nodes) == OrElse(innerHtml(doc, nodes), Str(<< >>))

\* The html case of extractStructuredData: $(selector.selector).html()
FieldHtml(doc, nodes) == innerHtml(doc, nodes)

\* Faulty variant: the text case without trim().
FieldText_Untrimmed(doc, nodes) == Str(text(doc, nodes))

\* The text case of extractStructuredData: $(selector.selector).text().trim()
FieldText(doc, nodes) == TrimmedText(doc, nodes)

\* Faulty variant: attr() is called without the attribute name.
FieldAttr_NoName(doc, nodes, name) == attr(doc, nodes, Undefined)

\* The attr case of extractStructuredData: $(selector.selector).attr(selector.attr)
FieldAttr(doc, nodes, name) == attr(doc, nodes, name)

\* Faulty variant: the switch has no default branch.
FieldDefault_Unset(doc, nodes) == Undefined

\* The default case of extractStructuredData, for any other type.
FieldDefault(doc, nodes) == TrimmedText(doc, nodes)

\* One iteration of the loop of extractStructuredData, for the field spec
\* mapping[key]: [kind |-> "set", value |-> v] when result[key] is assigned,
\* "skip" when it is not, "throw" when the iteration throws.
EvalField(doc, selector) ==
    CASE selector.t = "string" ->
            LET m == Select(doc, selector) IN
            IF m.ok THEN [kind |-> "set", value |-> TrimmedText(doc, m.nodes)]
            ELSE Throw("SyntaxError")
      [] selector.t = "null" -> Throw("TypeError")
      [] selector.t = "object" /\ Truthy(Get(selector, "type")) ->
            LET type == Get(selector, "type")
                m    == Select(doc, Get(selector, "selector"))
            IN IF ~m.ok THEN Throw("SyntaxError")
               ELSE CASE type = Str(<<"text">>) ->
                            [kind |-> "set", value |-> FieldText(doc, m.nodes)]
                      [] type = Str(<<"html">>) ->
                            [kind |-> "set", value |-> FieldHtml(doc, m.nodes)]
                      [] type = Str(<<"attr">>) ->
                            [kind |-> "set",
                             value |-> FieldAttr(doc, m.nodes, Get(selector, "attr"))]
                      [] type = Str(<<"list">>) ->
                            [kind |-> "set", value |-> ListOf(doc, m.nodes)]
                      [] OTHER ->
                            [kind |-> "set", value |-> FieldDefault(doc, m.nodes)]
      [] OTHER -> [kind |-> "skip"]

\* The order in which for...in visits the keys of a mapping: mappings are
\* written with their keys in this order.
KeyOrder == <<"title", "headings", "mainContent", "images", "links", "tags">>

FirstKey(S) == KeyOrder[CHOOSE k \in 1..Len(KeyOrder) :
                   /\ KeyOrder[k] \in S
                   /\ \A j \in 1..(k - 1) : KeyOrder[j] \notin S]

extractStructuredData(doc, mapping) ==
    LET field == [key \in DOMAIN mapping.v |-> EvalField(doc, mapping.v[key])]
    IN IF \E key \in DOMAIN field : field[key].kind = "throw"
       THEN Throw(field[FirstKey({key \in DOMAIN field : field[key].kind = "throw"})].error)
       ELSE Return(Obj([key \in {k \in DOMAIN field : field[k].kind = "set"} |->
                           field[key].value]))

---------------------------------------------------------------------------
(* WebScraperService: the HTTP client.  Header maps are functions from     *)
(* header names to values; defaults is this.client.defaults.               *)

DefaultTimeout == 10000

DefaultUserAgent ==
    "Mozilla/5.0 (iPhone; CPU iPhone OS 14_0 like Mac OS X) AppleWebKit/605.1.15 (KHTML, like Gecko) Mobile/15E148"

NoHeaders == [n \in {} |-> ""]

\* { ...a, ...b }
Merge(a, b) == [k \in DOMAIN a \cup DOMAIN b |-> IF k \in DOMAIN b THEN b[k] ELSE a[k]]

\* options.name of the constructor's argument, d when it is not given.
Option(options, name, d) == IF name \in DOMAIN options THEN options[name] ELSE d

\* Faulty variant: the built-in User-Agent is spread last.
ConstructHeaders_DefaultLast(options) ==
    Merge(Option(options, "headers", NoHeaders), "User-Agent" :> DefaultUserAgent)

\* headers: { 'User-Agent': ..., ...options.headers }
ConstructHeaders(options) ==
    Merge("User-Agent" :> DefaultUserAgent, Option(options, "headers", NoHeaders))

\* new WebScraperService(options): the defaults of the client it creates.
constructor(options) ==
    [timeout |-> IF Option(options, "timeout", 0) # 0
                 THEN options["timeout"] ELSE DefaultTimeout,
     headers |-> ConstructHeaders(options),
     auth    |-> Option(options, "auth", Undefined)]

setAuth(defaults, auth) == [defaults EXCEPT !.auth = auth]

\* Faulty variant: the headers are replaced, not merged.
setHeaders_Replace(defaults, headers) == [defaults EXCEPT !.headers = headers]

setHeaders(defaults, headers) == [defaults EXCEPT !.headers = Merge(@, headers)]

setCookies(defaults, cookies) == setHeaders(defaults, "Cookie" :> cookies)

\* The GET request this.client.get(url) sends with the defaults in effect.
Request(defaults, url) ==
    [url |-> url, headers |-> defaults.headers, auth |-> defaults.auth,
     timeout |-> defaults.timeout]

\* How this.client.get(url) settles for what the network does (reply: the
\* time it takes and the status of the response, 0 when the host is
\* unreachable or the transport fails).  It resolves for a 2xx response in
\* time and rejects with an error otherwise; status 0 in an error means
\* that it carries no response.
clientGet(request, reply) ==
    IF request.timeout > 0 /\ reply.latency > request.timeout
    THEN [ok |-> FALSE,
          error |-> [message |-> "timeout exceeded", code |-> "ECONNABORTED", status |-> 0]]
    ELSE IF reply.status = 0
    THEN [ok |-> FALSE,
          error |-> [message |-> "Network Error", code |-> "ERR_NETWORK", status |-> 0]]
    ELSE IF reply.status >= 200 /\ reply.status < 300
    THEN [ok |-> TRUE, response |-> [status |-> reply.status, data |-> reply.data]]
    ELSE [ok |-> FALSE,
          error |-> [message |-> "Request failed with status code",
                     code |-> IF reply.status < 500 THEN "ERR_BAD_REQUEST"
                              ELSE "ERR_BAD_RESPONSE",
                     status |-> reply.status]]

\* Faulty variant: the catch block throws an error of its own.
fetchHtml_OwnError(result) ==
    IF result.ok THEN Return(result.response.data)
    ELSE Throw([message |-> "Failed to fetch", code |-> "ERR_FETCH", status |-> 0])

\* fetchHtml once this.client.get(url) has settled with result.
fetchHtml(result) ==
    IF result.ok THEN Return(result.response.data) ELSE Throw(result.error)

---------------------------------------------------------------------------
(* Inputs: documents, selectors, base URLs and mappings.                   *)

NoAttribs == [n \in {} |-> << >>]

Elem(tag, attribs, txt) == [tag |-> tag, attribs |-> attribs, text |-> txt]

ImgElems ==
    { Elem("img", ("src" :> <<"/", "a.png">>) @@ ("alt" :> <<"x">>), << >>),
      Elem("img", ("class" :> <<"tag">>) @@ ("src" :> <<"img", "/", "a.png">>)
                  @@ ("width" :> <<"10">>), << >>),
      Elem("img", ("src" :> <<"https:", "/", "/", "h.example", "/", "a.png">>)
                  @@ ("height" :> <<"20">>), << >>),
      Elem("img", ("class" :> <<"tag">>) @@ ("data-src" :> <<"/", "b.png">>), << >>),
      Elem("img", ("src" :> << >>) @@ ("data-src" :> <<"/", "b.png">>)
                  @@ ("width" :> << >>), << >>),
      Elem("img", ("src" :> << >>) @@ ("alt" :> <<"x">>), << >>),
      Elem("img", ("alt" :> <<"x">>), << >>),
      Elem("img", ("src" :> <<"/", "/", "cdn.example", "/", "a.png">>)
                  @@ ("data-src" :> <<"/", "b.png">>), << >>) }

LinkElems ==
    { Elem("a", ("href" :> <<"/", "p">>), <<"Hi">>),
      Elem("a", ("href" :> << >>), <<"x">>),
      Elem("a", NoAttribs, <<" ", "Hi", " ">>),
      Elem("a", ("class" :> <<"tag">>) @@ ("href" :> <<"p", "/", "q">>), <<"\n", "Hi">>),
      Elem("a", ("href" :> <<"https:", "/", "/", "h.example", "/", "p">>), <<"Hi", " ">>) }

DataElems ==
    { Elem("h1", NoAttribs, <<"T">>),
      Elem("span", ("class" :> <<"tag">>), <<"a">>),
      Elem("a", ("class" :> <<"x", " ", "tag">>) @@ ("href" :> <<"/", "p">>), <<" ", "b", " ">>),
      Elem("span", NoAttribs, <<" ", "c">>) }

\* The documents of at most MaxElems elements built from one family.
DocsOf(elems) ==
    LET nodes == {[tag |-> e.tag, attribs |-> e.attribs, text |-> e.text, parent |-> p] :
                     e \in elems, p \in 0..(MaxElems - 1)}
    IN {d \in UNION {[1..n -> nodes] : n \in 0..MaxElems} : WellFormed(d)}

\* A page with images and links.
PageElems ==
    { Elem("img", ("src" :> <<"/", "a.png">>) @@ ("alt" :> <<"x">>), << >>),
      Elem("img", ("class" :> <<"tag">>) @@ ("src" :> <<"img", "/", "a.png">>), << >>),
      Elem("a", ("href" :> <<"/", "p">>), <<"Hi">>),
      Elem("a", ("class" :> <<"tag">>) @@ ("href" :> <<"p", "/", "q">>), <<" ", "b", " ">>) }

Selectors == { Str(<<".", "tag">>), Str(<<"p">>), Str(<<"[">>) }

BaseUrls ==
    { Str(<< >>),
      Str(<<"https:", "/", "/", "h.example">>),
      Str(<<"https:", "/", "/", "h.example", "/", "dir", "/", "page">>),
      Str(<<"h.example">>) }

TextArgs ==
    Selectors \cup
    { Str(<<"h1">>), Str(<<"h1", ",", " ", ".", "tag">>), Str(<< >>), Undefined,
      Obj(("title" :> Str(<<"h1">>)) @@ ("tags" :> Str(<<".", "tag">>))),
      Obj(("tags" :> Str(<<"p">>))),
      Obj(("title" :> Str(<<"h1">>)) @@ ("tags" :> Str(<<"[">>))) }

FieldTypes == { Str(<<"text">>), Str(<<"html">>), Str(<<"list">>), Str(<<"custom">>) }

AttrNames == { Str(<<"class">>), Str(<<"href">>) }

MatchingSelectors == { Str(<<".", "tag">>), Str(<<"p">>) }

\* The forms of a field spec: a bare selector, an object with a selector
\* and no type or an empty type, an object with a type and a selector, an
\* attr object with or without an attribute name.
FieldSpecs ==
    Selectors
    \cup { Obj(("selector" :> Str(<<".", "tag">>))),
           Obj(("type" :> Str(<< >>)) @@ ("selector" :> Str(<<".", "tag">>))) }
    \cup { Obj(("type" :> ty) @@ ("selector" :> sel)) :
              ty \in FieldTypes, sel \in MatchingSelectors }
    \cup { Obj(("type" :> Str(<<"attr">>)) @@ ("selector" :> sel)) :
              sel \in MatchingSelectors }
    \cup { Obj(("type" :> Str(<<"attr">>)) @@ ("selector" :> sel) @@ ("attr" :> name)) :
              sel \in MatchingSelectors, name \in AttrNames }

\* The records an extractImages or extractLinks call gave, passed in a
\* field {type: 'custom', value: ...}.
CustomValue == Arr(<<[url |-> Str(<<"/", "a.png">>), alt |-> Str(<<"x">>)]>>)

CustomSpec == Obj(("type" :> Str(<<"custom">>)) @@ ("value" :> CustomValue))

\* {type: 'text', selector: sel}
TextSpec(sel) == Obj(("type" :> Str(<<"text">>)) @@ ("selector" :> sel))

TitleSpecs == { Str(<<"h1">>), Obj(("selector" :> Str(<<"h1">>))) }

Mappings ==
    { Obj(NoAttribs) }
    \cup { Obj(("title" :> t)) : t \in TitleSpecs }
    \cup { Obj(("tags" :> f)) : f \in FieldSpecs }
    \cup { Obj(("title" :> Str(<<"h1">>)) @@ ("tags" :> f)) : f \in FieldSpecs }
    \cup { Obj(("title" :> sel) @@ ("tags" :> TextSpec(sel))) : sel \in MatchingSelectors }
    \cup { Obj(("tags" :> CustomSpec)),
           Obj(("title" :> Str(<<"h1">>)) @@ ("tags" :> CustomSpec)) }

Credentials == { [username |-> "user", password |-> "password"],
                 [username |-> "admin", password |-> "secret"] }

\* The constructor's argument: nothing; the usage guide's headers and
\* timeout; credentials and a timeout of 0.
ConstructorOptions ==
    { [n \in {} |-> 0],
      ("timeout" :> 15000)
          @@ ("headers" :> (("User-Agent" :> "Custom User Agent")
                            @@ ("Accept-Language" :> "en-US,en;q=0.9"))),
      ("timeout" :> 0) @@ ("auth" :> [username |-> "user", password |-> "password"]) }

HeaderArgs ==
    { ("User-Agent" :> "Bot/1.0"),
      ("Accept-Language" :> "fr") @@ ("Cookie" :> "session=old") }

CookieArgs == { "session=abc123; token=xyz789", "" }

Urls == { "https://h.example/", "https://h.example/missing" }

\* What the network does with a request.
Replies ==
    { [latency |-> l, status |-> st, data |-> Str(<<"<h1>", "T", "</h1>">>)] :
         l \in {5000, 12000, 20000}, st \in {0, 200, 404, 500} }

---------------------------------------------------------------------------
(* The state machine: a document and the calls made on it.                 *)

\* The scraper new WebScraperService(options) creates.
Constructed(options) ==
    /\ client = constructor(options)
    /\ history = <<[fn |-> "constructor", options |-> options]>>
    /\ requests = << >>
    /\ pending = << >>
    /\ fetches = 0

InitOn(elems) ==
    /\ html \in DocsOf(elems)
    /\ call = [fn |-> "none"]
    /\ outcome = [kind |-> "none"]
    /\ Constructed([n \in {} |-> 0])
    /\ screen = [tab |-> "none"]

Init == InitOn(PageElems)

ExtractText ==
    \E selectors \in TextArgs :
        /\ call' = [fn |-> "extractText", selectors |-> selectors]
        /\ outcome' = extractText(html, selectors)
        /\ UNCHANGED html
        /\ UNCHANGED <<clientVars, screen>>

\* Faulty variant: extractImages requests the page at baseUrl itself.
ExtractImages_Fetching ==
    \E selector \in Selectors \cup {Undefined}, baseUrl \in BaseUrls :
        /\ call' = [fn |-> "extractImages", selector |-> selector, baseUrl |-> baseUrl]
        /\ outcome' = extractImages(html, selector, baseUrl)
        /\ requests' = Append(requests, Request(client, "https://h.example/"))
        /\ UNCHANGED <<html, client, history, pending, fetches, screen>>

ExtractImages ==
    \E selector \in Selectors \cup {Undefined}, baseUrl \in BaseUrls :
        /\ call' = [fn |-> "extractImages", selector |-> selector, baseUrl |-> baseUrl]
        /\ outcome' = extractImages(html, selector, baseUrl)
        /\ UNCHANGED html
        /\ UNCHANGED <<clientVars, screen>>

ExtractLinks ==
    \E selector \in Selectors \cup {Undefined}, baseUrl \in BaseUrls :
        /\ call' = [fn |-> "extractLinks", selector |-> selector, baseUrl |-> baseUrl]
        /\ outcome' = extractLinks(html, selector, baseUrl)
        /\ UNCHANGED html
        /\ UNCHANGED <<clientVars, screen>>

ExtractStructuredData ==
    \E mapping \in Mappings :
        /\ call' = [fn |-> "extractStructuredData", mapping |-> mapping]
        /\ outcome' = extractStructuredData(html, mapping)
        /\ UNCHANGED html
        /\ UNCHANGED <<clientVars, screen>>

Next ==
    \/ ExtractText
    \/ ExtractImages
    \/ ExtractLinks
    \/ ExtractStructuredData

Spec == Init /\ [][Next]_vars

\* extractImages on documents of image elements of every form.
InitImages == InitOn(ImgElems)

SpecImages == InitImages /\ [][ExtractImages]_vars

\* extractLinks on documents of link elements of every form.
InitLinks == InitOn(LinkElems)

SpecLinks == InitLinks /\ [][ExtractLinks]_vars

\* extractStructuredData on documents of headings and tagged elements.
InitData == InitOn(DataElems)

SpecData == InitData /\ [][ExtractStructuredData]_vars

\* extractText on the same documents.
SpecText == InitData /\ [][ExtractText]_vars

\* The scraper as a client, constructed with any options.
InitClient ==
    /\ html = << >>
    /\ call = [fn |-> "none"]
    /\ outcome = [kind |-> "none"]
    /\ \E options \in ConstructorOptions : Constructed(options)
    /\ screen = [tab |-> "none"]

SetAuth ==
    \E auth \in Credentials :
        /\ Len(history) <= MaxSetters
        /\ client' = setAuth(client, auth)
        /\ history' = Append(history, [fn |-> "setAuth", arg |-> auth])
        /\ UNCHANGED <<html, call, outcome, requests, pending, fetches, screen>>

SetHeaders ==
    \E headers \in HeaderArgs :
        /\ Len(history) <= MaxSetters
        /\ client' = setHeaders(client, headers)
        /\ history' = Append(history, [fn |-> "setHeaders", arg |-> headers])
        /\ UNCHANGED <<html, call, outcome, requests, pending, fetches, screen>>

SetCookies ==
    \E cookies \in CookieArgs :
        /\ Len(history) <= MaxSetters
        /\ client' = setCookies(client, cookies)
        /\ history' = Append(history, [fn |-> "setCookies", arg |-> cookies])
        /\ UNCHANGED <<html, call, outcome, requests, pending, fetches, screen>>

\* fetchHtml(url) up to its await: the GET request is sent.
FetchStart ==
    \E url \in Urls :
        /\ fetches < MaxFetches
        /\ fetches' = fetches + 1
        /\ requests' = Append(requests, Request(client, url))
        /\ pending' = Append(pending, Request(client, url))
        /\ UNCHANGED <<html, call, outcome, client, history, screen>>

\* The requests other than the i-th.
Without(seq, i) == SubSeq(seq, 1, i - 1) \o SubSeq(seq, i + 1, Len(seq))

\* Faulty variant: a request that failed is sent again.
FetchSettle_Retry ==
    \E i \in 1..Len(pending), reply \in Replies :
        LET result == clientGet(pending[i], reply) IN
        IF result.ok
        THEN /\ call' = [fn |-> "fetchHtml", request |-> pending[i], reply |-> reply]
             /\ outcome' = fetchHtml(result)
             /\ pending' = Without(pending, i)
             /\ UNCHANGED <<html, client, history, requests, fetches, screen>>
        ELSE /\ requests' = Append(requests, pending[i])
             /\ UNCHANGED <<html, call, outcome, client, history, pending, fetches, screen>>

\* fetchHtml from its await on: a pending request settles and the call
\* returns or throws.
FetchSettle ==
    \E i \in 1..Len(pending), reply \in Replies :
        /\ call' = [fn |-> "fetchHtml", request |-> pending[i], reply |-> reply]
        /\ outcome' = fetchHtml(clientGet(pending[i], reply))
        /\ pending' = Without(pending, i)
        /\ UNCHANGED <<html, client, history, requests, fetches, screen>>

\* Fetching alone: the requests of a scraper and how they settle.
NextFetch ==
    \/ FetchStart
    \/ FetchSettle

SpecFetch == InitClient /\ [][NextFetch]_vars

\* Configuring: the setter calls of a scraper and the requests it sends
\* under them.
NextConfig ==
    \/ SetAuth
    \/ SetHeaders
    \/ SetCookies
    \/ FetchStart

SpecConfig == InitClient /\ [][NextConfig]_vars

\* Extraction on a scraper constructed with any options that is also used
\* to fetch.
FrameElems == { Elem("img", ("src" :> <<"/", "a.png">>) @@ ("alt" :> <<"x">>), << >>) }

InitFrame ==
    /\ html \in DocsOf(FrameElems)
    /\ call = [fn |-> "none"]
    /\ outcome = [kind |-> "none"]
    /\ \E options \in ConstructorOptions : Constructed(options)
    /\ screen = [tab |-> "none"]

NextFrame ==
    \/ ExtractText
    \/ ExtractImages
    \/ ExtractLinks
    \/ ExtractStructuredData
    \/ FetchStart

SpecFrame == InitFrame /\ [][NextFrame]_vars

---------------------------------------------------------------------------
(* The screens.  A step is one task of the event loop: a press or a change *)
(* of an input with the render and the effects that follow it, or the      *)
(* settling of a request with everything the handler does after its await. *)

PageNode(tag, attribs, txt) == [tag |-> tag, attribs |-> attribs, text |-> txt, parent |-> 0]

\* A page with a heading, an image and a link.
FullPage ==
    << PageNode("h1", NoAttribs, <<" ", "T", " ">>),
       PageNode("img", ("src" :> <<"/", "a.png">>) @@ ("alt" :> <<"x">>), << >>),
       PageNode("a", ("href" :> <<"/", "p">>), <<"Hi">>) >>

\* What the network does with a request of a screen: the page in time, a
\* page that is missing, a page that comes too late, no answer.
PageReplies ==
    { [latency |-> 5000, status |-> 200, data |-> FullPage],
      [latency |-> 5000, status |-> 404, data |-> << >>],
      [latency |-> 12000, status |-> 200, data |-> FullPage],
      [latency |-> 5000, status |-> 0, data |-> << >>] }

\* What is typed into the URL field and into the selector field.
UrlInputs == { Str(<< >>), Str(<<"https:", "/", "/", "h.example">>) }

SelectorInputs == { Str(<< >>), Str(<<"h1">>), Str(<<"[">>) }

\* `${prefix}${err.message}`: the message is error.message of what
\* fetchHtml threw and the name of what an extract method threw.
ErrorText(prefix, message) == Str(<<prefix, message>>)

\* disabled={loading || !url} of the Start Scraping button.
ScrapeDisabled(s) == s.loading \/ ~Truthy(s.url)

---------------------------------------------------------------------------
(* WebScraper: the basic screen *)

BasicMounted ==
    [tab |-> "basic", url |-> Str(<< >>), selector |-> Str(<< >>),
     loading |-> FALSE, error |-> Null, textResults |-> Null,
     imageResults |-> Arr(<< >>), linkResults |-> Arr(<< >>),
     scrapeType |-> "text", scraping |-> << >>]

ScrapeTypes == {"text", "images", "links"}

\* Faulty variant: the results of the scrape before are left on screen.
basicBegin_KeepResults(s) ==
    [s EXCEPT !.loading = TRUE, !.error = Null,
              !.scraping = <<[url |-> s.url, selector |-> s.selector,
                              scrapeType |-> s.scrapeType]>>]

\* handleScrape of the basic screen up to its await; scraping holds what
\* the rest of the handler reads from this render.
basicBegin(s) ==
    [s EXCEPT !.loading = TRUE, !.error = Null, !.textResults = Null,
              !.imageResults = Arr(<< >>), !.linkResults = Arr(<< >>),
              !.scraping = <<[url |-> s.url, selector |-> s.selector,
                              scrapeType |-> s.scrapeType]>>]

\* The try block of handleScrape after its await, for what fetchHtml gave.
basicExtract(s, c, fetched) ==
    IF fetched.kind = "throw" THEN [s EXCEPT !.error = ErrorText("Error: ", fetched.error.message)]
    ELSE CASE c.scrapeType = "text" ->
                 IF Truthy(c.selector)
                 THEN LET text_ == extractText(fetched.value, c.selector) IN
                      IF text_.kind = "throw"
                      THEN [s EXCEPT !.error = ErrorText("Error: ", text_.error)]
                      ELSE [s EXCEPT !.textResults = text_.value]
                 ELSE [s EXCEPT !.error =
                          Str(<<"Please enter a CSS selector for text extraction">>)]
           [] c.scrapeType = "images" ->
                 LET images == extractImages(fetched.value,
                                   OrElse(c.selector, Str(<<"img">>)), c.url) IN
                 IF images.kind = "throw"
                 THEN [s EXCEPT !.error = ErrorText("Error: ", images.error)]
                 ELSE [s EXCEPT !.imageResults = images.value]
           [] c.scrapeType = "links" ->
                 LET links == extractLinks(fetched.value,
                                  OrElse(c.selector, Str(<<"a">>)), c.url) IN
                 IF links.kind = "throw"
                 THEN [s EXCEPT !.error = ErrorText("Error: ", links.error)]
                 ELSE [s EXCEPT !.linkResults = links.value]
           [] OTHER -> [s EXCEPT !.error = Str(<<"Invalid scrape type">>)]

\* Faulty variant: loading is reset at the end of the try block only.
finish_NoFinally(s, c, fetched, after) ==
    IF fetched.kind = "throw" THEN [after EXCEPT !.scraping = << >>]
    ELSE [after EXCEPT !.loading = FALSE, !.scraping = << >>]

\* The finally block: after is the state the try and catch blocks leave.
finish(s, c, fetched, after) == [after EXCEPT !.loading = FALSE, !.scraping = << >>]

\* handleScrape of the basic screen after its await.
basicSettle(s, fetched) ==
    finish(s, s.scraping[1], fetched, basicExtract(s, s.scraping[1], fetched))

\* handleScrape of either screen is called: with an empty URL it sets the
\* error and returns, otherwise begin(screen) and the request is sent.
HandleScrape(begin) ==
    IF ~Truthy(screen.url)
    THEN /\ screen' = [screen EXCEPT !.error = Str(<<"Please enter a URL">>)]
         /\ call' = [fn |-> "handleScrape", url |-> screen.url, ended |-> "no URL"]
         /\ outcome' = Return(Undefined)
         /\ UNCHANGED <<html, clientVars>>
    ELSE /\ fetches < MaxFetches
         /\ screen' = begin
         /\ fetches' = fetches + 1
         /\ requests' = Append(requests, Request(client, screen.url))
         /\ pending' = Append(pending, Request(client, screen.url))
         /\ UNCHANGED <<html, call, outcome, client, history>>

\* The request of the scrape in progress settles with reply and the
\* handler runs to its end, leaving the screen in the state settled.
ScrapeSettles(reply, settled) ==
    /\ screen.scraping # << >>
    /\ pending # << >>
    /\ screen' = settled
    /\ call' = [fn |-> "handleScrape", url |-> screen.scraping[1].url,
                ended |-> "settled", scraping |-> screen.scraping[1],
                reply |-> reply]
    /\ outcome' = Return(Undefined)
    /\ pending' = Tail(pending)
    /\ UNCHANGED <<html, client, history, requests, fetches>>

\* Start Scraping is pressed on the basic screen.
BasicPress ==
    /\ screen.tab = "basic"
    /\ ~ScrapeDisabled(screen)
    /\ HandleScrape(basicBegin(screen))

\* handleScrape of the basic screen is called while no scrape is in
\* progress, whatever the URL field holds: the handler tests the URL itself.
BasicCall ==
    /\ screen.tab = "basic"
    /\ ~screen.loading
    /\ HandleScrape(basicBegin(screen))

BasicSettle ==
    /\ screen.tab = "basic"
    /\ \E reply \in PageReplies :
          ScrapeSettles(reply, basicSettle(screen, fetchHtml(clientGet(pending[1], reply))))

\* The URL field, the selector field or a scrape type button is used.
BasicInput ==
    /\ screen.tab = "basic"
    /\ \/ \E url \in UrlInputs : screen' = [screen EXCEPT !.url = url]
       \/ \E selector \in SelectorInputs : screen' = [screen EXCEPT !.selector = selector]
       \/ \E type \in ScrapeTypes : screen' = [screen EXCEPT !.scrapeType = type]
    /\ UNCHANGED <<html, call, outcome, clientVars>>

InitBasic ==
    /\ html = << >>
    /\ call = [fn |-> "none"]
    /\ outcome = [kind |-> "none"]
    /\ Constructed([n \in {} |-> 0])
    /\ screen = BasicMounted

NextBasic ==
    \/ BasicPress
    \/ BasicSettle
    \/ BasicInput

SpecBasic == InitBasic /\ [][NextBasic]_vars

---------------------------------------------------------------------------
(* WebScraperWithAuth: the advanced screen.  The scraper is created once   *)
(* and kept; username, password and cookies are header and credential     *)
(* strings as the client holds them.                                       *)

AdvancedMounted ==
    [tab |-> "advanced", url |-> Str(<< >>), selector |-> Str(<< >>),
     loading |-> FALSE, error |-> Null, results |-> Null,
     useAuth |-> FALSE, username |-> "", password |-> "", cookies |-> "",
     authType |-> "basic", scraping |-> << >>]

AuthTypes == {"basic", "cookie"}

UsernameInputs == {"", "user"}

PasswordInputs == {"", "password"}

CookieInputs == {"", "session=abc123"}

\* The setter call the effect makes for the state s: <<call>>, or << >>.
EffectCall(s) ==
    IF ~s.useAuth THEN << >>
    ELSE IF s.authType = "basic" /\ s.username # "" /\ s.password # ""
    THEN <<[fn |-> "setAuth", arg |-> [username |-> s.username, password |-> s.password]]>>
    ELSE IF s.authType = "cookie" /\ s.cookies # ""
    THEN <<[fn |-> "setCookies", arg |-> s.cookies]>>
    ELSE << >>

\* The defaults of the scraper after the effect's setter call.
Configure(defaults, calls) ==
    IF calls = << >> THEN defaults
    ELSE IF calls[1].fn = "setAuth" THEN setAuth(defaults, calls[1].arg)
    ELSE setCookies(defaults, calls[1].arg)

\* handleScrape of the advanced screen up to its await.
advancedBegin(s) ==
    [s EXCEPT !.loading = TRUE, !.error = Null, !.results = Null,
              !.scraping = <<[url |-> s.url, selector |-> s.selector]>>]

\* The mapping handleScrape builds when a selector is given.
AdvancedMapping(selector, images, links) ==
    Obj(("title" :> Str(<<"title">>))
        @@ ("headings" :> Obj(("type" :> Str(<<"list">>))
               @@ ("selector" :> Str(<<"h1", ",", " ", "h2", ",", " ", "h3">>))))
        @@ ("mainContent" :> Obj(("type" :> Str(<<"text">>)) @@ ("selector" :> selector)))
        @@ ("images" :> Obj(("type" :> Str(<<"custom">>)) @@ ("value" :> images)))
        @@ ("links" :> Obj(("type" :> Str(<<"custom">>)) @@ ("value" :> links))))

\* The try block of handleScrape after its await, for what fetchHtml gave.
advancedExtract(s, c, fetched) ==
    IF fetched.kind = "throw" THEN [s EXCEPT !.error = ErrorText("Error: ", fetched.error.message)]
    ELSE LET page   == fetched.value
             images == extractImages(page, Str(<<"img">>), c.url)
             links  == extractLinks(page, Str(<<"a">>), c.url)
             title  == extractText(page, Str(<<"title">>))
             data   == extractStructuredData(page,
                           AdvancedMapping(c.selector, images.value, links.value))
         IN IF Truthy(c.selector)
            THEN IF images.kind = "throw"
                 THEN [s EXCEPT !.error = ErrorText("Error: ", images.error)]
                 ELSE IF links.kind = "throw"
                 THEN [s EXCEPT !.error = ErrorText("Error: ", links.error)]
                 ELSE IF data.kind = "throw"
                 THEN [s EXCEPT !.error = ErrorText("Error: ", data.error)]
                 ELSE [s EXCEPT !.results = data.value]
            ELSE IF title.kind = "throw"
                 THEN [s EXCEPT !.error = ErrorText("Error: ", title.error)]
                 ELSE IF images.kind = "throw"
                 THEN [s EXCEPT !.error = ErrorText("Error: ", images.error)]
                 ELSE IF links.kind = "throw"
                 THEN [s EXCEPT !.error = ErrorText("Error: ", links.error)]
                 ELSE [s EXCEPT !.results =
                          Obj(("title" :> title.value) @@ ("images" :> images.value)
                              @@ ("links" :> links.value))]

\* handleScrape of the advanced screen after its await.
advancedSettle(s, fetched) ==
    finish(s, s.scraping[1], fetched, advancedExtract(s, s.scraping[1], fetched))

\* Start Scraping is pressed on the advanced screen.
AdvancedPress ==
    /\ screen.tab = "advanced"
    /\ ~ScrapeDisabled(screen)
    /\ HandleScrape(advancedBegin(screen))

\* handleScrape of the advanced screen is called while no scrape is in
\* progress, whatever the URL field holds.
AdvancedCall ==
    /\ screen.tab = "advanced"
    /\ ~screen.loading
    /\ HandleScrape(advancedBegin(screen))

AdvancedSettle ==
    /\ screen.tab = "advanced"
    /\ \E reply \in PageReplies :
          ScrapeSettles(reply, advancedSettle(screen, fetchHtml(clientGet(pending[1], reply))))

\* The URL field or the selector field is used.
AdvancedInput ==
    /\ screen.tab = "advanced"
    /\ \/ \E url \in UrlInputs : screen' = [screen EXCEPT !.url = url]
       \/ \E selector \in SelectorInputs : screen' = [screen EXCEPT !.selector = selector]
    /\ UNCHANGED <<html, call, outcome, clientVars>>

\* The states a use of the authentication form leads to: the switch, and
\* with the switch on the auth type buttons and the fields of the type
\* selected.
AuthFormChanges(s) ==
    {[s EXCEPT !.useAuth = ~s.useAuth]}
    \cup (IF ~s.useAuth THEN {}
          ELSE {[s EXCEPT !.authType = type] : type \in AuthTypes}
               \cup (IF s.authType = "basic"
                     THEN {[s EXCEPT !.username = v] : v \in UsernameInputs}
                          \cup {[s EXCEPT !.password = v] : v \in PasswordInputs}
                     ELSE {[s EXCEPT !.cookies = v] : v \in CookieInputs}))

\* The authentication form is used: the state changes and the effect runs.
AdvancedAuthInput ==
    /\ screen.tab = "advanced"
    /\ \E changed \in AuthFormChanges(screen) \ {screen} :
          /\ EffectCall(changed) # << >> => Len(history) <= MaxSetters
          /\ screen' = changed
          /\ client' = Configure(client, EffectCall(changed))
          /\ history' = history \o EffectCall(changed)
    /\ UNCHANGED <<html, call, outcome, requests, pending, fetches>>

InitAdvanced ==
    /\ html = << >>
    /\ call = [fn |-> "none"]
    /\ outcome = [kind |-> "none"]
    /\ Constructed([n \in {} |-> 0])
    /\ screen = AdvancedMounted

NextAdvanced ==
    \/ AdvancedPress
    \/ AdvancedSettle
    \/ AdvancedInput
    \/ AdvancedAuthInput

SpecAdvanced == InitAdvanced /\ [][NextAdvanced]_vars

---------------------------------------------------------------------------
(* WebScraperTest: the test screen.  Every render creates a scraper, so a  *)
(* test started by a press uses a new one; the tests of Run All Tests      *)
(* share the scraper of the render in which it was pressed.                *)

\* The four tests in the order in which runAllTests calls them.
TestOrder == <<"text", "images", "links", "auth">>

Tests == {TestOrder[k] : k \in 1..Len(TestOrder)}

\* testUrls, with the hosts of the model for the sites of the code.
TestUrls ==
    [text   |-> Str(<<"https:", "/", "/", "h.example">>),
     images |-> Str(<<"https:", "/", "/", "cdn.example">>),
     links  |-> Str(<<"https:", "/", "/", "h.example", "/", "dir", "/", "page">>),
     auth   |-> Str(<<"https:", "/", "/", "h.example", "/", "basic-auth", "/",
                      "user", "/", "passwd">>)]

FailedPrefix ==
    [text   |-> "Text extraction test failed: ",
     images |-> "Image extraction test failed: ",
     links  |-> "Link extraction test failed: ",
     auth   |-> "Authentication test failed: "]

\* What the network does with a request of a test.
TestReplies ==
    { [latency |-> 5000, status |-> 200, data |-> FullPage],
      [latency |-> 5000, status |-> 404, data |-> << >>] }

Num(n) == [t |-> "number", v |-> n]

NoRun == [started |-> << >>, finished |-> << >>]

\* running: the tests whose request is pending, each with whether
\* runAllTests awaits it; all: how far the last press of Run All Tests has
\* come, which tests it has started and which of them have ended and how.
TestsMounted ==
    [tab |-> "test", results |-> Obj([n \in {} |-> Null]), loading |-> FALSE,
     error |-> Null, running |-> << >>, all |-> NoRun]

\* The scraper a test works with: testAuthentication sets the credentials.
TestClient(test, defaults) ==
    IF test = "auth" THEN setAuth(defaults, [username |-> "user", password |-> "passwd"])
    ELSE defaults

TestHistory(test, calls) ==
    IF test = "auth"
    THEN Append(calls, [fn |-> "setAuth", arg |-> [username |-> "user", password |-> "passwd"]])
    ELSE calls

\* A test function up to its await.
testBegin(s, test, awaited) ==
    [s EXCEPT !.loading = TRUE, !.error = Null,
              !.running = Append(@, [test |-> test, awaited |-> awaited])]

\* array.slice(0, 3)
FirstThree(l) == SubSeq(l, 1, IF Len(l) < 3 THEN Len(l) ELSE 3)

\* What a test extracts from the page: the value it puts into results, or
\* what the extraction threw.
TestValue(test, page) ==
    LET title     == extractText(page, Str(<<"h1">>))
        paragraph == extractText(page, Str(<<"p">>))
        images    == extractImages(page, Str(<<"img">>), TestUrls["images"])
        links     == extractLinks(page, Str(<<"a">>), TestUrls["links"])
    IN CASE test = "text" ->
               IF title.kind = "throw" THEN title
               ELSE IF paragraph.kind = "throw" THEN paragraph
               ELSE Return(Obj(("title" :> title.value) @@ ("paragraph" :> paragraph.value)))
         [] test = "images" ->
               IF images.kind = "throw" THEN images
               ELSE Return(Obj(("count" :> Num(Len(images.value.v)))
                               @@ ("samples" :> Arr(FirstThree(images.value.v)))))
         [] test = "links" ->
               IF links.kind = "throw" THEN links
               ELSE Return(Obj(("count" :> Num(Len(links.value.v)))
                               @@ ("samples" :> Arr(FirstThree(links.value.v)))))
         [] test = "auth" ->
               Return(Obj(("success" :> [t |-> "boolean", v |-> TRUE])
                          @@ ("response" :> Arr(page))))

\* A test function after its await, for what fetchHtml gave; i is its
\* place in running.
testSettle(s, i, fetched) ==
    LET test  == s.running[i].test
        value == IF fetched.kind = "throw" THEN fetched
                 ELSE TestValue(test, fetched.value)
        after == IF fetched.kind = "throw"
                 THEN [s EXCEPT !.error = ErrorText(FailedPrefix[test], fetched.error.message)]
                 ELSE IF value.kind = "throw"
                 THEN [s EXCEPT !.error = ErrorText(FailedPrefix[test], value.error)]
                 ELSE [s EXCEPT !.results = Obj((test :> value.value) @@ s.results.v)]
    IN [after EXCEPT !.loading = FALSE, !.running = Without(@, i)]

\* A test starts on the scraper with the given defaults and call history:
\* the state of the screen becomes started and its request is sent.
TestStarts(test, started, defaults, calls) ==
    /\ screen' = started
    /\ client' = TestClient(test, defaults)
    /\ history' = TestHistory(test, calls)
    /\ fetches' = fetches + 1
    /\ requests' = Append(requests, Request(TestClient(test, defaults), TestUrls[test]))
    /\ pending' = Append(pending, Request(TestClient(test, defaults), TestUrls[test]))

NewScraper == constructor([n \in {} |-> 0])

NewHistory == <<[fn |-> "constructor", options |-> [n \in {} |-> 0]]>>

\* One of the four test buttons is pressed.
TestPress ==
    /\ screen.tab = "test"
    /\ ~screen.loading
    /\ fetches < MaxFetches
    /\ \E test \in Tests :
          TestStarts(test, [testBegin(screen, test, FALSE) EXCEPT !.all = NoRun],
                     NewScraper, NewHistory)
    /\ UNCHANGED <<html, call, outcome>>

\* runAllTests up to its first await: it calls testTextExtraction.
runAllBegin(s) ==
    testBegin([s EXCEPT !.loading = TRUE, !.error = Null,
                        !.results = Obj([n \in {} |-> Null]),
                        !.all = [started |-> <<TestOrder[1]>>, finished |-> << >>]],
              TestOrder[1], TRUE)

\* Faulty variant: runAllTests calls the four tests without awaiting them
\* and ends.
RunAllPress_NoAwait ==
    /\ screen.tab = "test"
    /\ ~screen.loading
    /\ fetches < MaxFetches
    /\ screen' = [screen EXCEPT
                     !.loading = FALSE, !.error = Null,
                     !.results = Obj([n \in {} |-> Null]),
                     !.all = [started |-> TestOrder, finished |-> << >>],
                     !.running = [k \in 1..Len(TestOrder) |->
                                     [test |-> TestOrder[k], awaited |-> TRUE]]]
    /\ client' = TestClient("auth", NewScraper)
    /\ history' = TestHistory("auth", NewHistory)
    /\ fetches' = fetches + Len(TestOrder)
    /\ requests' = requests \o [k \in 1..Len(TestOrder) |->
                                   Request(NewScraper, TestUrls[TestOrder[k]])]
    /\ pending' = pending \o [k \in 1..Len(TestOrder) |->
                                 Request(NewScraper, TestUrls[TestOrder[k]])]
    /\ UNCHANGED <<html, call, outcome>>

\* Run All Tests is pressed.
RunAllPress ==
    /\ screen.tab = "test"
    /\ ~screen.loading
    /\ fetches < MaxFetches
    /\ TestStarts(TestOrder[1], runAllBegin(screen), NewScraper, NewHistory)
    /\ UNCHANGED <<html, call, outcome>>

\* The request of a test settles and the test runs to its end; when
\* runAllTests awaits it, runAllTests goes on in the same task: it calls
\* the next test, or after the last one it ends with setLoading(false).
TestSettle ==
    /\ screen.tab = "test"
    /\ \E i \in 1..Len(pending), reply \in TestReplies :
       \E ended \in {testSettle(screen, i, fetchHtml(clientGet(pending[i], reply)))} :
          LET test == screen.running[i].test
              done == [ended EXCEPT !.all.finished =
                          Append(@, [test |-> test, passed |-> ended.error = Null])]
              next == TestOrder[Len(done.all.finished) + 1]
          IN /\ call' = [fn |-> test, ended |-> "settled", reply |-> reply]
             /\ outcome' = Return(Undefined)
             /\ IF ~screen.running[i].awaited
                THEN /\ screen' = ended
                     /\ pending' = Without(pending, i)
                     /\ UNCHANGED <<client, history, requests, fetches>>
                ELSE IF Len(done.all.finished) < Len(TestOrder)
                THEN /\ screen' = [testBegin(done, next, TRUE) EXCEPT
                                      !.all.started = Append(@, next)]
                     /\ client' = TestClient(next, client)
                     /\ history' = TestHistory(next, history)
                     /\ fetches' = fetches + 1
                     /\ requests' = Append(requests,
                                        Request(TestClient(next, client), TestUrls[next]))
                     /\ pending' = Append(Without(pending, i),
                                       Request(TestClient(next, client), TestUrls[next]))
                ELSE /\ screen' = [done EXCEPT !.loading = FALSE]
                     /\ pending' = Without(pending, i)
                     /\ UNCHANGED <<client, history, requests, fetches>>
    /\ UNCHANGED html

InitTests ==
    /\ html = << >>
    /\ call = [fn |-> "none"]
    /\ outcome = [kind |-> "none"]
    /\ Constructed([n \in {} |-> 0])
    /\ screen = TestsMounted

NextTests ==
    \/ TestPress
    \/ RunAllPress
    \/ TestSettle

SpecTests == InitTests /\ [][NextTests]_vars

\* handleScrape of the two scraper screens, called for every URL; every
\* request is answered in the end.
InitScrape ==
    /\ html = << >>
    /\ call = [fn |-> "none"]
    /\ outcome = [kind |-> "none"]
    /\ Constructed([n \in {} |-> 0])
    /\ screen \in {BasicMounted, AdvancedMounted}

NextScrape ==
    \/ BasicCall
    \/ BasicSettle
    \/ BasicInput
    \/ AdvancedCall
    \/ AdvancedSettle
    \/ AdvancedInput

SpecScrape ==
    /\ InitScrape
    /\ [][NextScrape]_vars
    /\ WF_vars(BasicSettle)
    /\ WF_vars(AdvancedSettle)

---------------------------------------------------------------------------
(* Properties *)

StructuredCall == call.fn = "extractStructuredData"

\* The fields of the mapping of the last extractStructuredData call.
Fields == DOMAIN call.mapping.v

FieldSpecOf(key) == call.mapping.v[key]

\* The result object of a call that returned.
Result == outcome.value.v

\* The elements a selector argument matches in the document.
Matched(selector) == Select(html, selector).nodes

Parses(selector) == Select(html, selector).ok

\* A field spec object whose type is the given mode.
HasMode(f, mode) == f.t = "object" /\ Get(f, "type") = Str(<<mode>>)

\* Some field other than key has a selector the query engine rejects.
OtherFieldRejected(key) ==
    \E k \in Fields \ {key} :
        \/ FieldSpecOf(k).t = "string" /\ ~Parses(FieldSpecOf(k))
        \/ FieldSpecOf(k).t = "object" /\ ~Parses(Get(FieldSpecOf(k), "selector"))

\* C1: the result of extractStructuredData has exactly the keys of the
\* mapping, whether or not any selector matches.
C1_SameKeySet ==
    (StructuredCall /\ outcome.kind = "return") => DOMAIN Result = Fields

\* C2: a field given as an object with a selector and no mode/type is
\* evaluated in text mode (the trimmed text of its node-set) and the call
\* does not fail.
C2_MissingTypeIsText ==
    StructuredCall =>
        \A key \in Fields :
            LET f == FieldSpecOf(key) IN
            (f.t = "object" /\ "selector" \in DOMAIN f.v /\ "type" \notin DOMAIN f.v)
            => /\ outcome.kind = "return"
               /\ key \in DOMAIN Result
               /\ Result[key] = Str(Trim(text(html, Matched(Get(f, "selector")))))

\* A field in one of the four modes whose selector matches no element.
UnmatchedField(key, mode) ==
    /\ HasMode(FieldSpecOf(key), mode)
    /\ Parses(Get(FieldSpecOf(key), "selector"))
    /\ Matched(Get(FieldSpecOf(key), "selector")) = << >>

\* C3 as stated: a field whose selector matches nothing gets the empty
\* string in text, html and attr mode and the empty list in list mode,
\* never null, undefined or an error.
C3_UnmatchedIsEmpty ==
    StructuredCall =>
        \A key \in Fields :
            /\ \A mode \in {"text", "html", "attr"} :
                   UnmatchedField(key, mode)
                   => /\ outcome.kind = "return"
                      /\ key \in DOMAIN Result
                      /\ Result[key] = Str(<< >>)
            /\ UnmatchedField(key, "list")
               => /\ outcome.kind = "return"
                  /\ key \in DOMAIN Result
                  /\ Result[key] = Arr(<< >>)

UnmatchedValue(mode) ==
    CASE mode = "text" -> Str(<< >>)
      [] mode = "list" -> Arr(<< >>)
      [] mode = "html" -> Null
      [] mode = "attr" -> Undefined

\* C3 amended: a field whose selector matches nothing gets the empty string
\* in text mode, the empty list in list mode, null in html mode and
\* undefined in attr mode; evaluating it raises no error.
C3_UnmatchedValues ==
    StructuredCall =>
        \A key \in Fields : \A mode \in {"text", "html", "attr", "list"} :
            UnmatchedField(key, mode)
            => /\ outcome.kind = "throw" => OtherFieldRejected(key)
               /\ outcome.kind = "return"
                  => key \in DOMAIN Result /\ Result[key] = UnmatchedValue(mode)

\* An html-mode field that matched nothing in a document with elements,
\* next to a field that matched.
C3_Witness ==
    /\ StructuredCall
    /\ outcome.kind = "return"
    /\ Fields = {"title", "tags"}
    /\ UnmatchedField("tags", "html")
    /\ Result["tags"] = Null
    /\ Result["title"] = Str(<<"T">>)

\* C4: an attr-mode field that names no attribute makes
\* extractStructuredData fail with an error surfaced to the caller.
C4_AttrWithoutNameFails ==
    ( /\ StructuredCall
      /\ \E key \in Fields :
            /\ HasMode(FieldSpecOf(key), "attr")
            /\ "attr" \notin DOMAIN FieldSpecOf(key).v )
    => outcome.kind = "throw"

\* C5: with a selector that matches zero elements, extractText returns the
\* empty string and extractImages and extractLinks return an empty
\* sequence; none of them throws.
C5_NoMatchIsEmpty ==
    /\ ( /\ call.fn = "extractText"
         /\ call.selectors.t = "string"
         /\ Parses(call.selectors)
         /\ Matched(call.selectors) = << >> )
       => outcome = Return(Str(<< >>))
    /\ ( /\ call.fn = "extractImages"
         /\ Parses(DefaultArg(call.selector, Str(<<"img">>)))
         /\ Matched(DefaultArg(call.selector, Str(<<"img">>))) = << >> )
       => outcome = Return(Arr(<< >>))
    /\ ( /\ call.fn = "extractLinks"
         /\ Parses(DefaultArg(call.selector, Str(<<"a">>)))
         /\ Matched(DefaultArg(call.selector, Str(<<"a">>))) = << >> )
       => outcome = Return(Arr(<< >>))

\* extractLinks with a selector that matches nothing, on a page that has a
\* link, a base URL being given.
C5_Witness ==
    /\ call.fn = "extractLinks"
    /\ call.selector = Str(<<"p">>)
    /\ Truthy(call.baseUrl)
    /\ \E i \in 1..Len(html) : html[i].tag = "a"
    /\ outcome = Return(Arr(<< >>))

\* The value of an attribute of element i, empty when it is absent.
Attribute(i, name) ==
    IF name \in DOMAIN html[i].attribs THEN html[i].attribs[name] ELSE << >>

HasAttribute(i, name) == name \in DOMAIN html[i].attribs

\* The selector and base URL in effect in the last extractImages or
\* extractLinks call, and the records it returned.
ImagesSelector == DefaultArg(call.selector, Str(<<"img">>))

LinksSelector == DefaultArg(call.selector, Str(<<"a">>))

BaseUrl == DefaultArg(call.baseUrl, Str(<< >>)).v

Records == outcome.value.v

ImagesReturned == call.fn = "extractImages" /\ outcome.kind = "return"

LinksReturned == call.fn = "extractLinks" /\ outcome.kind = "return"

\* url is value as it stands or value resolved against the base URL.
FromValue(url, value) ==
    \/ url = Str(value)
    \/ StartsWithSlash(value) /\ url = Str(ResolveUrl(value, BaseUrl).href)

\* The width or height of a record for an attribute value, null for none.
Dimension(value) == IF value = << >> THEN Null ELSE Str(value)

\* C6 as stated: one record, in document order, for each matched element
\* that has a src or a data-src attribute; url from src when src is
\* present, from data-src only when src is absent; alt the attribute or
\* the empty string; width and height the attribute values, null when the
\* attribute is not present.
C6_RecordPerElementWithSource ==
    ImagesReturned =>
        LET HasSource(i) == HasAttribute(i, "src") \/ HasAttribute(i, "data-src")
            kept == SelectSeq(Matched(ImagesSelector), HasSource)
        IN /\ Len(Records) = Len(kept)
           /\ \A k \in 1..Len(kept) :
                 /\ FromValue(Records[k].url,
                              IF HasAttribute(kept[k], "src")
                              THEN Attribute(kept[k], "src")
                              ELSE Attribute(kept[k], "data-src"))
                 /\ Records[k].alt = Str(Attribute(kept[k], "alt"))
                 /\ Records[k].width = (IF HasAttribute(kept[k], "width")
                                        THEN Str(Attribute(kept[k], "width")) ELSE Null)
                 /\ Records[k].height = (IF HasAttribute(kept[k], "height")
                                         THEN Str(Attribute(kept[k], "height")) ELSE Null)

\* The value extractImages reads the url of element i from.
SourceValue(i) ==
    IF Attribute(i, "src") # << >> THEN Attribute(i, "src") ELSE Attribute(i, "data-src")

\* The matched elements with a non-empty src or data-src.
ImagesKept ==
    LET HasSource(i) == SourceValue(i) # << >>
    IN SelectSeq(Matched(ImagesSelector), HasSource)

\* C6 amended: extractImages, when it returns, gives in document order one
\* record for each matched element that has a non-empty src or a non-empty
\* data-src and none for the others; url comes from src when src is
\* non-empty and from data-src otherwise; alt is the alt attribute or the
\* empty string; width and height are the attribute values, null when the
\* attribute is absent or empty.
C6_RecordPerElementWithNonEmptySource ==
    ImagesReturned =>
        /\ Len(Records) = Len(ImagesKept)
        /\ \A k \in 1..Len(ImagesKept) :
              /\ FromValue(Records[k].url, SourceValue(ImagesKept[k]))
              /\ Records[k].alt = Str(Attribute(ImagesKept[k], "alt"))
              /\ Records[k].width = Dimension(Attribute(ImagesKept[k], "width"))
              /\ Records[k].height = Dimension(Attribute(ImagesKept[k], "height"))

\* Two matched images, the first with an empty src and a data-src, the
\* second with neither: one record, read from data-src.
C6_Witness ==
    /\ ImagesReturned
    /\ Len(Matched(ImagesSelector)) = 2
    /\ HasAttribute(1, "src") /\ Attribute(1, "src") = << >>
    /\ ~HasAttribute(2, "src") /\ ~HasAttribute(2, "data-src")
    /\ Len(Records) = 1
    /\ Records[1].url = Str(Attribute(1, "data-src"))
    /\ Records[1].width = Null

\* The matched elements with a non-empty href.
LinksKept ==
    LET HasHref(i) == Attribute(i, "href") # << >>
    IN SelectSeq(Matched(LinksSelector), HasHref)

\* The url of a record read from value: resolved against the base URL
\* when value starts with '/' and the base URL is not empty, value itself
\* in every other case.
ExpectedUrl(value) ==
    IF StartsWithSlash(value) /\ BaseUrl # << >>
    THEN Str(ResolveUrl(value, BaseUrl).href)
    ELSE Str(value)

C8_UrlsAbsolute ==
    (ImagesReturned /\ BaseUrl # << >>) =>
        \A k \in 1..Len(Records) : IsAbsoluteUrl(Records[k].url.v)

\* C9 as stated: one record, in document order, for each matched element
\* that has an href attribute; text is the element's trimmed text and url
\* follows the resolution rule of images.
C9_RecordPerElementWithHref ==
    LinksReturned =>
        LET HasHref(i) == HasAttribute(i, "href")
            kept == SelectSeq(Matched(LinksSelector), HasHref)
        IN /\ Len(Records) = Len(kept)
           /\ \A k \in 1..Len(kept) :
                 /\ Records[k].url = ExpectedUrl(Attribute(kept[k], "href"))
                 /\ Records[k].text = Str(Trim(TextOf(html, kept[k])))

\* C9 amended: extractLinks, when it returns, gives in document order one
\* record for each matched element that has a non-empty href and none for
\* the others; text is the element's text without leading and trailing
\* whitespace and url follows the resolution rule of images.
C9_RecordPerElementWithNonEmptyHref ==
    LinksReturned =>
        /\ Len(Records) = Len(LinksKept)
        /\ \A k \in 1..Len(LinksKept) :
              /\ Records[k].url = ExpectedUrl(Attribute(LinksKept[k], "href"))
              /\ Records[k].text = Str(Trim(TextOf(html, LinksKept[k])))

\* <a href="/p"> that holds a link without href, whose text ends the
\* outer link's text with whitespace, base URL https://h.example: one
\* record, resolved and trimmed.
C9_Witness ==
    /\ LinksReturned
    /\ BaseUrl = <<"https:", "/", "/", "h.example">>
    /\ Len(Matched(LinksSelector)) = 2
    /\ Attribute(1, "href") = <<"/", "p">>
    /\ ~HasAttribute(2, "href")
    /\ html[2].parent = 1
    /\ TextOf(html, 1) # Trim(TextOf(html, 1))
    /\ Records = <<[url |-> Str(<<"https:", "/", "/", "h.example", "/", "p">>),
                    text |-> Str(Trim(TextOf(html, 1)))]>>

\* C10: a list-mode field yields one entry per matched element, in
\* document order, each the element's own trimmed text.
C10_ListPerElement ==
    StructuredCall =>
        \A key \in Fields :
            LET f == FieldSpecOf(key)
                nodes == Matched(Get(f, "selector"))
            IN (HasMode(f, "list") /\ Parses(Get(f, "selector")))
               => /\ outcome.kind = "throw" => OtherFieldRejected(key)
                  /\ outcome.kind = "return"
                     => /\ key \in DOMAIN Result
                        /\ Result[key].t = "array"
                        /\ Len(Result[key].v) = Len(nodes)
                        /\ \A k \in 1..Len(nodes) :
                              Result[key].v[k] = Str(Trim(TextOf(html, nodes[k])))

\* Two matched elements, the second with whitespace around its text.
C10_Witness ==
    /\ StructuredCall
    /\ outcome.kind = "return"
    /\ "tags" \in Fields
    /\ HasMode(FieldSpecOf("tags"), "list")
    /\ Len(html) = 2
    /\ TextOf(html, 2) # Trim(TextOf(html, 2))
    /\ Result["tags"] = Arr(<<Str(<<"a">>), Str(<<"b">>)>>)

\* The trimmed text of the node-set a selector matches.
TextOfSelector(selector) == Str(Trim(text(html, Matched(selector))))

\* C11: an attr-mode field whose selector matches an element that lacks
\* the requested attribute yields an empty or undefined value without an
\* error, and the other fields are still evaluated and returned.
C11_AbsentAttributeIsUndefined ==
    StructuredCall =>
        \A key \in Fields :
            LET f     == FieldSpecOf(key)
                name  == Get(f, "attr")
                nodes == Matched(Get(f, "selector"))
            IN ( /\ HasMode(f, "attr")
                 /\ Truthy(name)
                 /\ Parses(Get(f, "selector"))
                 /\ nodes # << >>
                 /\ ~HasAttribute(nodes[1], name.v[1]) )
               => /\ outcome.kind = "throw" => OtherFieldRejected(key)
                  /\ outcome.kind = "return"
                     => /\ key \in DOMAIN Result
                        /\ Result[key] = Undefined \/ Result[key] = Str(<< >>)
                        /\ \A k \in Fields \ {key} :
                              FieldSpecOf(k).t = "string"
                              => /\ k \in DOMAIN Result
                                 /\ Result[k] = TextOfSelector(FieldSpecOf(k))

\* href asked of a matched <span class="tag">, next to a title that is
\* found.
C11_Witness ==
    /\ StructuredCall
    /\ outcome.kind = "return"
    /\ Fields = {"title", "tags"}
    /\ HasMode(FieldSpecOf("tags"), "attr")
    /\ Get(FieldSpecOf("tags"), "attr") = Str(<<"href">>)
    /\ Len(Matched(Get(FieldSpecOf("tags"), "selector"))) = 1
    /\ Result["tags"] = Undefined
    /\ Result["title"] = Str(<<"T">>)

\* C12: a field written as the bare string s and a field written as
\* {selector: s, type: text} get the same value, and that value is
\* extractText(html, s).
C12_BareStringIsTextMode ==
    (StructuredCall /\ outcome.kind = "return") =>
        \A key \in Fields :
            LET f == FieldSpecOf(key) IN
            /\ f.t = "string"
               => /\ key \in DOMAIN Result
                  /\ Return(Result[key]) = extractText(html, f)
                  /\ \A k \in Fields :
                        (HasMode(FieldSpecOf(k), "text") /\ Get(FieldSpecOf(k), "selector") = f)
                        => k \in DOMAIN Result /\ Result[k] = Result[key]
            /\ (HasMode(f, "text") /\ Truthy(Get(f, "selector")))
               => /\ key \in DOMAIN Result
                  /\ Return(Result[key]) = extractText(html, Get(f, "selector"))

\* Both forms of one selector in one mapping, on a node-set whose text
\* has whitespace around it.
C12_Witness ==
    /\ StructuredCall
    /\ outcome.kind = "return"
    /\ Fields = {"title", "tags"}
    /\ FieldSpecOf("title").t = "string"
    /\ FieldSpecOf("tags") = TextSpec(FieldSpecOf("title"))
    /\ text(html, Matched(FieldSpecOf("title"))) # Trim(text(html, Matched(FieldSpecOf("title"))))
    /\ Result["title"] = Str(<<"b">>)
    /\ Result["tags"] = Str(<<"b">>)

C14_CustomValueReturned ==
    StructuredCall =>
        \A key \in Fields :
            LET f == FieldSpecOf(key) IN
            (HasMode(f, "custom") /\ "value" \in DOMAIN f.v /\ "selector" \notin DOMAIN f.v)
            => /\ outcome.kind = "return"
               /\ key \in DOMAIN Result
               /\ Result[key] = Get(f, "value")

\* C15: extractText with a mapping of name to selector returns one entry
\* per key, each the trimmed text of the selector's node-set, the empty
\* string when nothing matches, and does not throw.
C15_TextPerKey ==
    (call.fn = "extractText" /\ call.selectors.t = "object") =>
        LET selectors == call.selectors.v IN
        /\ outcome.kind = "throw" <=> \E key \in DOMAIN selectors : ~Parses(selectors[key])
        /\ outcome.kind = "return"
           => /\ DOMAIN Result = DOMAIN selectors
              /\ \A key \in DOMAIN selectors :
                    /\ Result[key] = TextOfSelector(selectors[key])
                    /\ Matched(selectors[key]) = << >> => Result[key] = Str(<< >>)

\* A mapping whose first selector matches nothing and whose second matches
\* an element with whitespace around its text.
C15_Witness ==
    /\ call.fn = "extractText"
    /\ call.selectors.t = "object"
    /\ outcome.kind = "return"
    /\ DOMAIN call.selectors.v = {"title", "tags"}
    /\ Matched(call.selectors.v["title"]) = << >>
    /\ Len(Matched(call.selectors.v["tags"])) = 1
    /\ Result = ("title" :> Str(<< >>)) @@ ("tags" :> Str(<<"b">>))

---------------------------------------------------------------------------
(* The HTTP client *)

\* The last call was a fetchHtml that has ended.
FetchEnded == call.fn = "fetchHtml"

\* The request of that call took longer than its timeout allows.
TimedOut == call.reply.latency > call.request.timeout

Thrown == outcome.kind = "throw"

\* C17: fetchHtml throws an error that tells the cause: a request that
\* exceeds the timeout throws the timeout error (code ECONNABORTED, no
\* response), an unreachable host or failed transport throws "Network
\* Error" (no response, another code), a response that is not 2xx throws
\* an error carrying its status; the body is returned for a 2xx response
\* in time and for nothing else.
C17_ErrorKindPerCause ==
    FetchEnded =>
        LET status == call.reply.status IN
        /\ TimedOut =>
              /\ Thrown
              /\ outcome.error.code = "ECONNABORTED"
              /\ outcome.error.status = 0
        /\ ~TimedOut /\ status = 0 =>
              /\ Thrown
              /\ outcome.error.message = "Network Error"
              /\ outcome.error.code # "ECONNABORTED"
              /\ outcome.error.status = 0
        /\ ~TimedOut /\ status # 0 /\ status \notin 200..299 =>
              /\ Thrown
              /\ outcome.error.status = status
        /\ ~TimedOut /\ status \in 200..299 => outcome = Return(call.reply.data)
        /\ outcome.kind = "return" => ~TimedOut /\ status \in 200..299

\* A fetch that was answered 404 in time has thrown the error with 404.
C17_Witness ==
    /\ FetchEnded
    /\ ~TimedOut
    /\ call.reply.status = 404
    /\ Thrown
    /\ outcome.error.status = 404

\* C18: every fetchHtml call has sent one GET request and no more, and a
\* call whose request failed has thrown the very error the request was
\* rejected with.
C18_OneRequestSameError ==
    /\ Len(requests) = fetches
    /\ Len(pending) <= fetches
    /\ FetchEnded /\ ~clientGet(call.request, call.reply).ok =>
          outcome = Throw(clientGet(call.request, call.reply).error)

\* Two calls have ended, the last one by a failure, with two requests sent.
C18_Witness ==
    /\ fetches = 2
    /\ pending = << >>
    /\ Len(requests) = 2
    /\ FetchEnded
    /\ Thrown

\* The headers given to the constructor.
GivenHeaders == Option(history[1].options, "headers", NoHeaders)

\* C19: a scraper on which no setter was called sends the built-in
\* User-Agent when options.headers has none and the one of options.headers
\* when it has one, together with every other header of options.headers.
C19_UserAgentDefaultOrGiven ==
    Len(history) = 1 =>
        \A k \in 1..Len(requests) :
            /\ "User-Agent" \in DOMAIN requests[k].headers
            /\ requests[k].headers["User-Agent"] =
                  (IF "User-Agent" \in DOMAIN GivenHeaders
                   THEN GivenHeaders["User-Agent"] ELSE DefaultUserAgent)
            /\ \A name \in DOMAIN GivenHeaders :
                  /\ name \in DOMAIN requests[k].headers
                  /\ requests[k].headers[name] = GivenHeaders[name]

\* A request was sent with the User-Agent of options.headers and the other
\* header given with it.
C19_Witness ==
    /\ Len(history) = 1
    /\ "User-Agent" \in DOMAIN GivenHeaders
    /\ GivenHeaders["User-Agent"] # DefaultUserAgent
    /\ Len(requests) > 0
    /\ requests[1].headers["User-Agent"] = "Custom User Agent"
    /\ requests[1].headers["Accept-Language"] = "en-US,en;q=0.9"

\* The credentials in effect after the first n calls of the history.
RECURSIVE LastAuth(_)
LastAuth(n) ==
    IF n = 1 THEN Option(history[1].options, "auth", Undefined)
    ELSE IF history[n].fn = "setAuth" THEN history[n].arg
    ELSE LastAuth(n - 1)

\* The n-th call of the history names the header.
Names(n, name) ==
    \/ history[n].fn = "setHeaders" /\ name \in DOMAIN history[n].arg
    \/ history[n].fn = "setCookies" /\ name = "Cookie"

\* The header as the first n calls of the history leave it: <<value>>, or
\* << >> when no call has set it.
RECURSIVE LastHeader(_, _)
LastHeader(n, name) ==
    IF n = 1
    THEN IF name \in DOMAIN GivenHeaders THEN <<GivenHeaders[name]>>
         ELSE IF name = "User-Agent" THEN <<DefaultUserAgent>>
         ELSE << >>
    ELSE IF Names(n, name)
    THEN IF history[n].fn = "setCookies" THEN <<history[n].arg>>
         ELSE <<history[n].arg[name]>>
    ELSE LastHeader(n - 1, name)

HeaderNames == {"User-Agent", "Accept-Language", "Cookie", "Authorization"}

\* C20: after any sequence of setter calls the default credentials are
\* those of the last setAuth, or the constructor's, and every default
\* header has the value of the last setHeaders or setCookies naming it, or
\* the constructor's; a header no call has named is not set.
C20_LastSetterWins ==
    /\ client.auth = LastAuth(Len(history))
    /\ DOMAIN client.headers \subseteq HeaderNames
    /\ \A name \in HeaderNames :
          LET last == LastHeader(Len(history), name) IN
          IF last = << >> THEN name \notin DOMAIN client.headers
          ELSE /\ name \in DOMAIN client.headers
               /\ client.headers[name] = last[1]

\* Credentials and a cookie are in effect together, set by setAuth and
\* then setCookies on a scraper constructed with other headers, and a
\* request was sent with both and with the constructor's headers.
C20_Witness ==
    /\ Len(history) = 3
    /\ "auth" \notin DOMAIN history[1].options
    /\ history[2].fn = "setAuth"
    /\ history[3].fn = "setCookies"
    /\ client.auth = history[2].arg
    /\ {"Cookie", "Accept-Language"} \subseteq DOMAIN client.headers
    /\ client.headers["Cookie"] = "session=abc123; token=xyz789"
    /\ client.headers["Accept-Language"] = "en-US,en;q=0.9"
    /\ Len(requests) > 0
    /\ requests[Len(requests)].auth = client.auth
    /\ requests[Len(requests)].headers = client.headers

---------------------------------------------------------------------------
(* Extraction and the client *)

ExtractionNames == {"extractText", "extractImages", "extractLinks", "extractStructuredData"}

\* This step is an extraction call.
ExtractionStep == call' # call /\ call'.fn \in ExtractionNames

\* C21: an extraction call sends no request and leaves the defaults of the
\* client (timeout, headers, credentials) and the document it was given
\* as they were.
C21_ExtractionLeavesClientAndHtml ==
    [][ExtractionStep =>
          /\ requests' = requests
          /\ pending' = pending
          /\ client' = client
          /\ html' = html]_vars

\* An extraction has ended on a document with an image, on a scraper
\* constructed with credentials that has sent two requests, one of them
\* before the extraction.
C21_Witness ==
    /\ call.fn \in ExtractionNames
    /\ outcome.kind = "return"
    /\ Len(html) > 0
    /\ client.auth # Undefined
    /\ Len(requests) = 2
    /\ Len(pending) = 2

---------------------------------------------------------------------------
(* The basic screen *)

\* The result states of the basic screen that hold something.
ShownResults ==
    {r \in {"textResults", "imageResults", "linkResults"} :
        IF r = "textResults" THEN Truthy(screen.textResults) ELSE screen[r].v # << >>}

\* A scrape has ended and none is in progress.
ScrapeEnded == call.fn = "handleScrape" /\ screen.scraping = << >>

\* The page the last scrape fetched: <<page>>, or << >> when its fetch failed.
FetchedPage ==
    IF call.reply.latency <= DefaultTimeout /\ call.reply.status \in 200..299
    THEN <<call.reply.data>> ELSE << >>

\* What the last scrape had to put into the result state r: the result of
\* the extraction for the scrape type and the selector of its start.
Extracted(r) ==
    LET c == call.scraping
        page == FetchedPage[1]
    IN CASE r = "textResults" -> extractText(page, c.selector)
         [] r = "imageResults" -> extractImages(page, OrElse(c.selector, Str(<<"img">>)), c.url)
         [] r = "linkResults" -> extractLinks(page, OrElse(c.selector, Str(<<"a">>)), c.url)

ResultOfType == [text |-> "textResults", images |-> "imageResults", links |-> "linkResults"]

\* C26: at most one of textResults, imageResults and linkResults holds
\* something; after a scrape it is the one of the scrape type selected when
\* the last scrape was started and holds what that scrape extracted from
\* the page it fetched; when the last scrape ended with an error, and while
\* a scrape is in progress, none of them holds anything.
C26_OneResultOfLastScrape ==
    screen.tab = "basic" =>
        /\ Cardinality(ShownResults) <= 1
        /\ screen.scraping # << >> => ShownResults = {}
        /\ ScrapeEnded /\ screen.error # Null => ShownResults = {}
        /\ ScrapeEnded =>
              \A r \in ShownResults :
                  /\ r = ResultOfType[call.scraping.scrapeType]
                  /\ FetchedPage # << >>
                  /\ screen[r] = Extracted(r).value

\* A second scrape, started for links, has ended and shows its links, also
\* though another scrape type was selected while it was in progress.
C26_Witness ==
    /\ screen.tab = "basic"
    /\ ScrapeEnded
    /\ fetches = 2
    /\ call.scraping.scrapeType = "links"
    /\ screen.scrapeType = "images"
    /\ ShownResults = {"linkResults"}
    /\ screen.error = Null

---------------------------------------------------------------------------
(* The advanced screen and the two scraper screens *)

\* This step sends a request.
RequestSent == Len(requests') = Len(requests) + 1

Sent == requests'[Len(requests')]

SendsCredentials(request) == request.auth # Undefined

SendsCookie(request) == "Cookie" \in DOMAIN request.headers

\* C22: a scrape of the advanced screen started with Use Authentication
\* off sends neither credentials nor a Cookie header; started with it on,
\* it sends no Cookie header under basic auth and no credentials under
\* cookie auth.
C22_OnlySelectedAuthSent ==
    [][RequestSent /\ screen.tab = "advanced" =>
          /\ ~screen.useAuth => ~SendsCredentials(Sent) /\ ~SendsCookie(Sent)
          /\ screen.useAuth /\ screen.authType = "basic" => ~SendsCookie(Sent)
          /\ screen.useAuth /\ screen.authType = "cookie" => ~SendsCredentials(Sent)]_vars

\* This step is a call of handleScrape with an empty URL.
EmptyUrlCall ==
    /\ ~Truthy(screen.url)
    /\ call' # call
    /\ call'.fn = "handleScrape"
    /\ call'.ended = "no URL"

\* C25: handleScrape with an empty URL sets the error 'Please enter a URL'
\* and changes nothing else, sending no request; with a URL, loading is
\* true exactly while the request of the scrape is pending, on every path
\* the scrape can take, and a scrape that is loading comes to its end.
C25_LoadingWhileScraping ==
    /\ [][EmptyUrlCall =>
             /\ screen' = [screen EXCEPT !.error = Str(<<"Please enter a URL">>)]
             /\ requests' = requests
             /\ pending' = pending]_vars
    /\ [](screen.loading <=> pending # << >>)
    /\ (screen.loading ~> ~screen.loading)

\* A scrape of the basic screen has ended with a text on screen, and a call
\* with an empty URL after it has set the error and left the text.
C25_Witness ==
    /\ screen.tab = "basic"
    /\ Len(requests) = 1
    /\ pending = << >>
    /\ ~screen.loading
    /\ Truthy(screen.textResults)
    /\ call.ended = "no URL"
    /\ screen.error = Str(<<"Please enter a URL">>)

---------------------------------------------------------------------------
(* The test screen *)

\* Run All Tests was pressed and its last test has not ended.
RunInProgress ==
    /\ screen.all.started # << >>
    /\ Len(screen.all.finished) < Len(TestOrder)

RunAllFinished ==
    /\ screen.tab = "test"
    /\ Len(screen.all.finished) = Len(TestOrder)

FailedTests ==
    {screen.all.finished[k].test :
        k \in {j \in 1..Len(screen.all.finished) : ~screen.all.finished[j].passed}}

\* C24: when Run All Tests has finished and a test of it failed, all four
\* tests have run and the error is set and is the report of a test that
\* failed.
C24_FailureReported ==
    RunAllFinished /\ FailedTests # {} =>
        /\ screen.all.started = TestOrder
        /\ screen.error # Null
        /\ \E test \in FailedTests : screen.error.v[1] = FailedPrefix[test]

====
